---- MODULE Spec2Model ----
(***************************************************************************)
(* Model of the PR Summarizer API client (APIClient): one shared client    *)
(* object, top-level calls that run APIClient.request with its timeout     *)
(* race, body decoding, error classification, retry with backoff, and the  *)
(* single-slot AbortController used by cancelRequests.                     *)
(*                                                                         *)
(* Scheduling follows the JavaScript event loop: a handler runs to its     *)
(* next await.  Aborting a controller rejects the awaiting promise in a    *)
(* microtask, so no timer or network event is delivered before the aborted *)
(* call has observed the abort, but synchronous client operations issued   *)
(* by the same task (another call, updateConfig) may precede it.           *)
(***************************************************************************)
EXTENDS Integers, Sequences, FiniteSets, TLC

\* ----- bounds -----
MaxCalls == 2
SoloCalls == 1
MaxRetries == 3
MaxUpdates == 1

Calls == 1..MaxCalls

\* ----- configuration (APIClientConfig) -----
RetriesChoices == 0..MaxRetries
DelayChoices == {100, 1000}
TimeoutChoices == {30000}
URLChoices == {"http://localhost:8000"}

DEFAULT_CONFIG ==
  [baseURL |-> "http://localhost:8000", timeout |-> 30000, retries |-> 3,
   retryDelay |-> 1000, retryBackoff |-> TRUE]

\* A partial configuration: each field is absent (<<>>) or present (<<v>>).
Opt(S) == {<<>>} \cup {<<v>> : v \in S}

Partials ==
  [baseURL : Opt(URLChoices), timeout : Opt(TimeoutChoices),
   retries : Opt(RetriesChoices), retryDelay : Opt(DelayChoices),
   retryBackoff : Opt(BOOLEAN)]

\* updateConfig replacing the configuration by the defaults with the partial
Merge_FromDefaults(base, partial) ==
  [f \in DOMAIN base |->
     IF partial[f] = <<>> THEN DEFAULT_CONFIG[f] ELSE partial[f][1]]

\* { ...base, ...partial }
Merge(base, partial) ==
  [f \in DOMAIN base |-> IF partial[f] = <<>> THEN base[f] ELSE partial[f][1]]

\* ----- abort controllers -----
\* The controller created by attempt n (1-based) of call c.
NoCtrl == <<0, 0>>
Ctrl(c, n) == <<c, n>>

\* ----- errors -----
\* validationErrors is "none" except on a ValidationAPIError, where it tells
\* what the 'errors' member of the response body was.  The message stands
\* for whatever text the error was constructed with.
Err(name, statusCode, errorCode) ==
  [name |-> name, statusCode |-> statusCode, errorCode |-> errorCode,
   validationErrors |-> "none", message |-> name]

NoResult == Err("none", 0, "")
Success == Err("ok", 200, "")
AbortError == Err("AbortError", 0, "")
FetchTypeError == Err("TypeError", 0, "fetch")
OtherTypeError == Err("TypeError", 0, "")
SyntaxError == Err("SyntaxError", 0, "")
TimeoutError == Err("TimeoutError", 0, "TIMEOUT_ERROR")
NetworkError == Err("NetworkError", 0, "NETWORK_ERROR")
CancelledError == Err("APIClientError", 0, "CANCELLED")
ValidationAPIError(errors) ==
  [Err("ValidationAPIError", 400, "VALIDATION_ERROR")
     EXCEPT !.validationErrors = errors]
HttpError(status) == Err("APIClientError", status, "HTTP")

IsAPIClientError(e) ==
  e.name \in {"APIClientError", "ValidationAPIError", "NetworkError", "TimeoutError"}

\* isRetryableError without the network-error line
isRetryableError_StatusOnly(e) ==
  e.statusCode >= 500 \/ e.statusCode = 429

\* isRetryableError retrying every client or server error status
isRetryableError_Any4xx(e) ==
  IF e.statusCode = 0 THEN TRUE
  ELSE e.statusCode >= 400

isRetryableError(e) ==
  IF e.statusCode = 0 THEN TRUE
  ELSE e.statusCode >= 500 \/ e.statusCode = 429

\* ----- responses -----
Statuses == {200, 400, 404, 429, 500}
ResponseOk(status) == status >= 200 /\ status <= 299

\* What response.json() yields: a JSON object without an 'errors' key, an
\* object with a non-empty / empty 'errors' list, an object whose 'errors'
\* member is not a list, the JSON value null, a JSON primitive, a body that is
\* not JSON, or a body whose transfer breaks off.
Bodies ==
  {"object", "errors", "noerrors", "badlist", "null", "primitive", "notjson",
   "dropped"}

\* errorData.errors of a decoded body that has the key
ErrorsMember(errorData) ==
  CASE errorData = "errors" -> "nonempty"
    [] errorData = "noerrors" -> "empty"
    [] OTHER -> "notalist"
Fallback == "object"

\* parseErrorResponse: the decoded body, or the synthesized fallback when
\* response.json() rejects for any reason.
parseErrorResponse(body, rejected) ==
  IF rejected \/ body = "notjson" THEN Fallback ELSE body

\* createAPIError: the error it returns, or the TypeError it throws when the
\* decoded body is not an object.
createAPIError(statusCode, errorData) ==
  IF statusCode = 400 /\ errorData \in {"null", "primitive"} THEN OtherTypeError
  ELSE IF statusCode = 400 /\ errorData \in {"errors", "noerrors", "badlist"}
       THEN ValidationAPIError(ErrorsMember(errorData))
  ELSE IF errorData = "null" THEN OtherTypeError
  ELSE HttpError(statusCode)

RECURSIVE Pow2(_)
Pow2(n) == IF n = 0 THEN 1 ELSE 2 * Pow2(n - 1)

\* The delay computed without the backoff factor
BackoffDelay_Fixed(cfg, retryCount) == cfg.retryDelay

BackoffDelay(cfg, retryCount) ==
  IF cfg.retryBackoff THEN cfg.retryDelay * Pow2(retryCount) ELSE cfg.retryDelay

\* The retry condition with retryCount <= retries
ShouldRetry_OffByOne(e, retryCount, cfg) ==
  IsAPIClientError(e) /\ retryCount <= cfg.retries /\ isRetryableError(e)

ShouldRetry(e, retryCount, cfg) ==
  IsAPIClientError(e) /\ retryCount < cfg.retries /\ isRetryableError(e)

\* ----- strings, form validation, the summary request -----
WhiteSpace == {" ", "\t", "\n"}
Digits == {"0", "1", "2", "3", "4", "5", "6", "7", "8", "9"}
Letters ==
  {"a", "b", "c", "d", "e", "f", "g", "h", "i", "j", "k", "l", "m", "n", "o",
   "p", "q", "r", "s", "t", "u", "v", "w", "x", "y", "z",
   "A", "B", "C", "D", "E", "F", "G", "H", "I", "J", "K", "L", "M", "N", "O",
   "P", "Q", "R", "S", "T", "U", "V", "W", "X", "Y", "Z"}

CharAt(s, i) == SubSeq(s, i, i)
From(s, i) == SubSeq(s, i, Len(s))

\* String.prototype.trim
RECURSIVE TrimStart(_)
TrimStart(s) ==
  IF Len(s) > 0 /\ CharAt(s, 1) \in WhiteSpace THEN TrimStart(From(s, 2)) ELSE s

RECURSIVE TrimEnd(_)
TrimEnd(s) ==
  IF Len(s) > 0 /\ CharAt(s, Len(s)) \in WhiteSpace
  THEN TrimEnd(SubSeq(s, 1, Len(s) - 1)) ELSE s

Trim(s) == TrimEnd(TrimStart(s))

\* s is one or more characters, all of class
Run(s, class) == Len(s) > 0 /\ \A i \in 1..Len(s) : CharAt(s, i) \in class

StartsWith(s, prefix) ==
  Len(s) >= Len(prefix) /\ SubSeq(s, 1, Len(prefix)) = prefix

\* The position of the first '/' of s, or 0.
FirstSlash(s) ==
  IF \E i \in 1..Len(s) : CharAt(s, i) = "/"
  THEN CHOOSE i \in 1..Len(s) :
         CharAt(s, i) = "/" /\ \A j \in 1..(i - 1) : CharAt(s, j) # "/"
  ELSE 0

\* /^https:\/\/github\.com\/[^\/]+\/[^\/]+\/pull\/\d+$/ .test(s)
GITHUB_PR_URL_PATTERN(s) ==
  /\ StartsWith(s, "https://github.com/")
  /\ LET rest == From(s, Len("https://github.com/") + 1)
         i == FirstSlash(rest)
         tail == From(rest, i + 1)
         j == FirstSlash(tail)
     IN  /\ i > 1
         /\ j > 1
         /\ StartsWith(From(tail, j), "/pull/")
         /\ Run(From(tail, j + Len("/pull/")), Digits)

\* /^[A-Z]{1,10}-\d+$/i .test(s)
JIRA_TICKET_PATTERN(s) ==
  \E k \in 1..10 :
    /\ Len(s) > k
    /\ Run(SubSeq(s, 1, k), Letters)
    /\ CharAt(s, k + 1) = "-"
    /\ Run(From(s, k + 2), Digits)

\* What a user types or a caller passes as reference fields.
UrlSamples ==
  {"", " ", "https://github.com/o/r/pull/1", " https://github.com/o/r/pull/1 ",
   "https://github.com/o/r"}
TicketSamples == {"", " ", "PROJ-1", " proj-1\n", "invalid ticket!"}

\* SummaryRequest / FormData: jiraTicketId is optional
SummaryRequests == [githubPrUrl : UrlSamples, jiraTicketId : Opt(TicketSamples)]
NoRequest == [githubPrUrl |-> "none", jiraTicketId |-> <<>>]
NoBody == [github_pr_url |-> "none", jira_ticket_id |-> <<>>]

\* value?.trim() || undefined
TrimOrUndefined(field) ==
  IF field = <<>> \/ Trim(field[1]) = "" THEN <<>> ELSE <<Trim(field[1])>>

\* The cleanRequest object of generateSummary, as JSON.stringify sends it.
cleanRequest(request) ==
  [github_pr_url |-> Trim(request.githubPrUrl),
   jira_ticket_id |-> TrimOrUndefined(request.jiraTicketId)]

\* validateField without the jiraTicketId case
validateField_UrlOnly(name, value) ==
  name = "githubPrUrl"
    /\ (Trim(value) = "" \/ ~GITHUB_PR_URL_PATTERN(Trim(value)))

\* validateField of InputForm: TRUE when the field has an error
validateField(name, value) ==
  IF name = "githubPrUrl"
  THEN Trim(value) = "" \/ ~GITHUB_PR_URL_PATTERN(Trim(value))
  ELSE Trim(value) # "" /\ ~JIRA_TICKET_PATTERN(Trim(value))

\* validateForm of InputForm: the fields with an error
validateForm(data) ==
  {name \in {"githubPrUrl"} : validateField(name, data.githubPrUrl)}
    \cup {name \in {"jiraTicketId"} :
            validateField(name, IF data.jiraTicketId = <<>> THEN ""
                                ELSE data.jiraTicketId[1])}

VARIABLES
  config,          \* this.config
  abortController, \* this.abortController (NoCtrl = null)
  aborted,         \* controllers of awaiting attempts whose signal is aborted
  started,         \* number of top-level calls started so far
  pc,              \* per call: "idle", "fetch", "body", "sleep", "done"
  retryCount,      \* per call: the retryCount argument of the current frame
  status,          \* per call: status of the response whose body is being read
  result,          \* per call: the value returned / error thrown to the caller
  delays,          \* per call: the backoff delays slept so far
  outcomes,        \* per call: how its attempts so far ended, if all alike
  stable,          \* per call: no updateConfig changed config since it started
  sleepCancel,     \* per call: cancelRequests was invoked during its backoff
  latest,          \* controller of the most recently started attempt
  earlyCancel,     \* cancelRequests has run and no call has started yet
  updates,         \* number of updateConfig calls so far
  cfg0,            \* per call: this.config when the call was made
  tracing,         \* whether the four histories below are being followed
  orphans,         \* per call: fetches left running by timed-out attempts
  lateTimers,      \* per call: pending timers of attempts whose race is over
  firedLate,       \* per call: the latest attempt's timer fired after its race
  seen,            \* per call: the statuses of the responses received
  asked,           \* per call: the SummaryRequest given to generateSummary
  sent,            \* per call: the request body transmitted
  appState,        \* App: summary, loading, error, lastRequest
  loadingState,    \* App: 'idle', 'validating', 'generating', 'completing'
  healthStatus,    \* App: 'unknown', 'healthy', 'unhealthy'
  formData,        \* InputForm: the two field values
  errors,          \* InputForm: the keys of errors that hold a message
  touched,         \* InputForm: the fields marked touched
  isSubmitting,    \* InputForm
  gens,            \* the generateSummary calls the App is awaiting
  probes,          \* the ping calls checkAPIHealth is awaiting, oldest first:
                   \* for each, whether a probe started later has completed
  lastProbe,       \* the probe that completed last
  event,           \* the handler that ran last
  lastResult,      \* what the last settled generateSummary call gave
  loadingLog,      \* the values given to setLoadingState since the last
                   \* generation started
  apiClientInstance, \* the module's singleton slot: 0 (null) or an instance
  instanceConfigs, \* the config of every APIClient the module constructed
  lastArg,         \* the argument of the last getAPIClient call, if any
  returned,        \* the instance the last getAPIClient call returned
  thrown,          \* the error given to getErrorMessage
  message          \* what getErrorMessage returned for it, once called

vars == <<config, abortController, aborted, started, pc, retryCount, status,
          result, delays, outcomes, stable, sleepCancel, latest, earlyCancel,
          updates, cfg0, tracing, orphans, lateTimers, firedLate, seen,
          asked, sent, appState, loadingState, healthStatus, formData, errors,
          touched, isSubmitting, gens, probes, lastProbe, event, lastResult,
          loadingLog, apiClientInstance, instanceConfigs, lastArg, returned,
          thrown, message>>

clientVars == <<config, abortController, aborted>>
callVars == <<pc, retryCount, status, result, delays, outcomes>>
traceVars == <<tracing, orphans, lateTimers, firedLate, seen>>
facadeVars == <<asked, sent>>
formVars == <<formData, errors, touched, isSubmitting>>
probeVars == <<probes, lastProbe>>
uiVars == <<appState, loadingState, healthStatus, formVars, gens, probeVars,
           event, lastResult, loadingLog>>
singletonVars == <<apiClientInstance, instanceConfigs, lastArg, returned>>
messageVars == <<thrown, message>>
outerVars == <<facadeVars, uiVars, singletonVars, messageVars>>

CurCtrl(c) == Ctrl(c, retryCount[c] + 1)
Attempts(c) == IF pc[c] = "idle" THEN 0 ELSE retryCount[c] + 1
InFlight(c) == pc[c] \in {"fetch", "body"}
Signalled(c) == InFlight(c) /\ CurCtrl(c) \in aborted

\* Controllers whose attempt is still awaiting its response or body.
LiveCtrls == {CurCtrl(c) : c \in {d \in Calls : InFlight(d)}}

\* A rejected promise of an aborted call is waiting in the microtask queue.
MicrotaskPending == \E c \in Calls : Signalled(c)

\* "none" before the first attempt ends, the kind shared by all ended attempts,
\* or "mixed".
Tally(sofar, kind) ==
  IF sofar = "none" \/ sofar = kind THEN kind ELSE "mixed"

\* The state after new APIClient(partial).
Constructed(partial) ==
  /\ config = Merge(DEFAULT_CONFIG, partial)
  /\ abortController = NoCtrl
  /\ aborted = {}
  /\ started = 0
  /\ pc = [c \in Calls |-> "idle"]
  /\ retryCount = [c \in Calls |-> 0]
  /\ status = [c \in Calls |-> 0]
  /\ result = [c \in Calls |-> NoResult]
  /\ delays = [c \in Calls |-> <<>>]
  /\ outcomes = [c \in Calls |-> "none"]
  /\ stable = [c \in Calls |-> TRUE]
  /\ sleepCancel = [c \in Calls |-> FALSE]
  /\ latest = NoCtrl
  /\ earlyCancel = FALSE
  /\ updates = 0
  /\ cfg0 = [c \in Calls |-> Merge(DEFAULT_CONFIG, partial)]
  /\ orphans = [c \in Calls |-> 0]
  /\ lateTimers = [c \in Calls |-> 0]
  /\ firedLate = [c \in Calls |-> FALSE]
  /\ seen = [c \in Calls |-> <<>>]
  /\ asked = [c \in Calls |-> NoRequest]
  /\ sent = [c \in Calls |-> NoBody]

\* ----- the App and its InputForm -----
NoSummary == NoBody
NoError == ""
Fields == {"githubPrUrl", "jiraTicketId"}

\* useState initial values of App and InputForm
InitialAppState ==
  [summary |-> NoSummary, loading |-> FALSE, error |-> NoError,
   lastRequest |-> NoRequest]
InitialFormData == [githubPrUrl |-> "", jiraTicketId |-> ""]

NoProbe == [ok |-> FALSE, overtaken |-> FALSE]

\* The components as first rendered, probing the probes under way.
Rendered(probing) ==
  /\ appState = InitialAppState
  /\ loadingState = "idle"
  /\ healthStatus = "unknown"
  /\ formData = InitialFormData
  /\ errors = {}
  /\ touched = {}
  /\ isSubmitting = FALSE
  /\ gens = <<>>
  /\ probes = probing
  /\ lastProbe = NoProbe
  /\ event = "none"
  /\ lastResult = NoResult
  /\ loadingLog = <<>>

\* let apiClientInstance = null: the module as loaded
ModuleLoaded ==
  /\ apiClientInstance = 0
  /\ instanceConfigs = <<>>
  /\ lastArg = <<>>
  /\ returned = 0

\* getErrorMessage has not been called
Unasked == thrown = NoResult /\ message = <<>>

\* The App is not mounted: the client is used on its own.
Unmounted == Rendered(<<>>) /\ ModuleLoaded /\ Unasked

\* new APIClient({}) or new APIClient({ retries })
Init ==
  \E partial \in Partials :
    /\ \A f \in DOMAIN partial \ {"retries"} : partial[f] = <<>>
    /\ Constructed(partial)
    /\ tracing = FALSE
    /\ Unmounted

\* new APIClient(config) for every partial configuration
InitConfig ==
  \E partial \in Partials : Constructed(partial) /\ tracing = FALSE /\ Unmounted

\* new APIClient(config), with the abandoned fetches, the stale timers and the
\* received statuses of its calls followed
InitTrace ==
  \E partial \in Partials : Constructed(partial) /\ tracing = TRUE /\ Unmounted

\* updateConfig(partial)
UpdateConfig ==
  /\ updates < MaxUpdates
  /\ \E partial \in Partials :
       /\ config' = Merge(config, partial)
       /\ stable' = [c \in Calls |->
                       IF pc[c] # "idle" /\ config' # config
                       THEN FALSE ELSE stable[c]]
  /\ updates' = updates + 1
  /\ UNCHANGED <<abortController, aborted, started, callVars, sleepCancel,
                 latest, earlyCancel, cfg0, traceVars, outerVars>>

\* cancelRequests that clears the slot without calling abort()
CancelTargets_NoAbort(slot) == {}

\* cancelRequests that aborts every request it ever started
CancelTargets_All(slot) == {Ctrl(c, n) : c \in Calls, n \in 1..(MaxRetries + 2)}

\* The controllers cancelRequests aborts, given the slot.
CancelTargets(slot) == IF slot = NoCtrl THEN {} ELSE {slot}

\* cancelRequests that installs a fresh controller instead of null
SlotAfterCancel_Fresh(slot) == Ctrl(0, 1)

\* The slot after cancelRequests.
SlotAfterCancel(slot) == NoCtrl

\* What cancelRequests does to the client it is called on.
Cancelled ==
  /\ aborted' = aborted \cup (CancelTargets(abortController) \cap LiveCtrls)
  /\ abortController' = SlotAfterCancel(abortController)
  /\ sleepCancel' = [c \in Calls |-> sleepCancel[c] \/ pc[c] = "sleep"]
  /\ earlyCancel' = (started = 0)

\* cancelRequests()
CancelRequests ==
  /\ Cancelled
  /\ UNCHANGED <<config, started, callVars, stable, latest, updates, cfg0,
                 traceVars, outerVars>>

\* request that aborts the controller it replaces
AbortedOnStart_Previous(slot) == {slot}

\* The controllers aborted when a new attempt takes the slot (none).
AbortedOnStart(slot) == {}

\* request keeping the controller already in the slot
SlotAfterStart_KeepFirst(slot, c, n) == IF slot = NoCtrl THEN Ctrl(c, n) ELSE slot

\* The slot after attempt n of call c has started.
SlotAfterStart(slot, c, n) == Ctrl(c, n)

\* request(endpoint, options, 0) up to the await of Promise.race, as long as
\* fewer than limit top-level calls have been made
Request(limit) ==
  /\ started < limit
  /\ LET c == started + 1 IN
       /\ started' = c
       /\ abortController' = SlotAfterStart(abortController, c, 1)
       /\ aborted' = aborted \cup (AbortedOnStart(abortController) \cap LiveCtrls)
       /\ latest' = Ctrl(c, 1)
       /\ pc' = [pc EXCEPT ![c] = "fetch"]
       /\ cfg0' = [cfg0 EXCEPT ![c] = config]
  /\ earlyCancel' = FALSE
  /\ UNCHANGED <<config, retryCount, status, result, delays, outcomes, stable,
                 sleepCancel, updates, traceVars>>

\* request leaving the fetch of every failed attempt running
AbandonedFetches_Always(kind) == 1

\* The fetches an attempt that ended in the given way leaves running: the
\* timeout rejects the race but does not abort the fetch.
AbandonedFetches(kind) == IF kind = "Timeout" THEN 1 ELSE 0

\* request rethrowing the timeout of its earlier attempts
Surfaced_Earlier(e, sofar) == IF sofar = "Timeout" THEN TimeoutError ELSE e

\* The error the caller of request / generateSummary receives when the attempt
\* that threw e is not retried, sofar telling how the earlier attempts ended.
Surfaced(e, sofar) == e

\* The catch block of request for error e thrown by the current attempt of
\* call c; kind says how the attempt ended.
Catch(c, e, kind) ==
  /\ outcomes' = [outcomes EXCEPT ![c] = Tally(@, kind)]
  /\ orphans' = [orphans EXCEPT ![c] =
                   IF tracing THEN @ + AbandonedFetches(kind) ELSE @]
  /\ lateTimers' = [lateTimers EXCEPT ![c] =
                      IF tracing /\ pc[c] = "fetch" /\ kind # "Timeout"
                      THEN @ + 1 ELSE @]
  /\ UNCHANGED <<tracing, firedLate, seen>>
  /\ status' = [status EXCEPT ![c] = 0]
  /\ aborted' = aborted \ {CurCtrl(c)}
  /\ UNCHANGED <<config, abortController, retryCount>>
  /\ IF e.name = "AbortError"
     THEN /\ result' = [result EXCEPT ![c] = CancelledError]
          /\ pc' = [pc EXCEPT ![c] = "done"]
          /\ UNCHANGED delays
     ELSE IF e.name = "TypeError" /\ e.errorCode = "fetch"
     THEN /\ result' = [result EXCEPT ![c] = NetworkError]
          /\ pc' = [pc EXCEPT ![c] = "done"]
          /\ UNCHANGED delays
     ELSE IF ShouldRetry(e, retryCount[c], config)
     THEN /\ delays' = [delays EXCEPT ![c] = Append(@, BackoffDelay(config, retryCount[c]))]
          /\ pc' = [pc EXCEPT ![c] = "sleep"]
          /\ UNCHANGED result
     ELSE /\ result' = [result EXCEPT ![c] = Surfaced(e, outcomes[c])]
          /\ pc' = [pc EXCEPT ![c] = "done"]
          /\ UNCHANGED delays

\* The race consumes the timer only while the attempt awaits
\* Promise.race([fetch, timeoutPromise]); covering the body read as well
RaceOpen_UntilDone(phase) == phase \in {"fetch", "body"}

\* The phases of an attempt in which its timer can still end it.
RaceOpen(phase) == phase = "fetch"

\* fetch resolves with a response before the timer fires
Respond(c) ==
  /\ pc[c] = "fetch"
  /\ ~MicrotaskPending
  /\ \E s \in Statuses :
       /\ status' = [status EXCEPT ![c] = s]
       /\ seen' = [seen EXCEPT ![c] = IF tracing THEN Append(@, s) ELSE @]
  /\ pc' = [pc EXCEPT ![c] = "body"]
  /\ lateTimers' = [lateTimers EXCEPT ![c] = IF tracing THEN @ + 1 ELSE @]
  /\ UNCHANGED <<clientVars, started, retryCount, result, delays, outcomes,
                 stable, sleepCancel, latest, earlyCancel, updates, cfg0,
                 tracing, orphans, firedLate, outerVars>>

\* fetch rejects with a TypeError (transport failure)
TransportFail(c) ==
  /\ pc[c] = "fetch"
  /\ ~MicrotaskPending
  /\ \E e \in {FetchTypeError, OtherTypeError} : Catch(c, e, "Network")
  /\ UNCHANGED <<started, stable, sleepCancel, latest, earlyCancel, updates, cfg0,
                 outerVars>>

\* the timeout timer rejects the race first
TimerFires(c) ==
  /\ InFlight(c) /\ RaceOpen(pc[c])
  /\ ~MicrotaskPending
  /\ Catch(c, TimeoutError, "Timeout")
  /\ UNCHANGED <<started, stable, sleepCancel, latest, earlyCancel, updates, cfg0,
                 outerVars>>

\* response.json() settles
BodyDone(c) ==
  /\ pc[c] = "body"
  /\ ~MicrotaskPending
  /\ \E body \in Bodies :
       IF ResponseOk(status[c])
       THEN IF body = "notjson"
            THEN Catch(c, SyntaxError, "Decode")
            ELSE IF body = "dropped"
            THEN \E e \in {FetchTypeError, OtherTypeError} : Catch(c, e, "Network")
            ELSE /\ result' = [result EXCEPT ![c] = Success]
                 /\ pc' = [pc EXCEPT ![c] = "done"]
                 /\ outcomes' = [outcomes EXCEPT ![c] = Tally(@, "Ok")]
                 /\ status' = [status EXCEPT ![c] = 0]
                 /\ UNCHANGED <<clientVars, retryCount, delays, traceVars>>
       ELSE Catch(c, createAPIError(status[c],
                                    parseErrorResponse(body, body = "dropped")), "Http")
  /\ UNCHANGED <<started, stable, sleepCancel, latest, earlyCancel, updates, cfg0,
                 outerVars>>

\* the aborted call resumes with the AbortError rejection
AbortObserved(c) ==
  /\ Signalled(c)
  /\ IF pc[c] = "fetch" \/ ResponseOk(status[c])
     THEN Catch(c, AbortError, "Abort")
     ELSE Catch(c, createAPIError(status[c], parseErrorResponse("notjson", TRUE)), "Abort")
  /\ UNCHANGED <<started, stable, sleepCancel, latest, earlyCancel, updates, cfg0,
                 outerVars>>

\* The retryCount argument of the retry: retryCount + 1
NextRetryCount(n) == n + 1

\* sleep(delay) resolves: request(endpoint, options, retryCount + 1)
SleepDone(c) ==
  /\ pc[c] = "sleep"
  /\ ~MicrotaskPending
  /\ retryCount' = [retryCount EXCEPT ![c] = NextRetryCount(@)]
  /\ abortController' =
       SlotAfterStart(abortController, c, NextRetryCount(retryCount[c]) + 1)
  /\ aborted' = aborted \cup (AbortedOnStart(abortController) \cap LiveCtrls)
  /\ latest' = Ctrl(c, NextRetryCount(retryCount[c]) + 1)
  /\ pc' = [pc EXCEPT ![c] = "fetch"]
  /\ firedLate' = [firedLate EXCEPT ![c] = FALSE]
  /\ UNCHANGED <<config, started, status, result, delays, outcomes, stable,
                 sleepCancel, earlyCancel, updates, cfg0, tracing, orphans,
                 lateTimers, seen, outerVars>>

\* The current attempt of call c is reading its body and its timer is pending.
TimerOfBodyPending(c) == pc[c] = "body" /\ ~firedLate[c]

\* a fetch left running by a timed-out attempt settles (response, failure or
\* abort): its promise already lost the race
OrphanSettles(c) ==
  /\ orphans[c] > 0
  /\ ~MicrotaskPending
  /\ orphans' = [orphans EXCEPT ![c] = @ - 1]
  /\ UNCHANGED <<clientVars, started, callVars, stable, sleepCancel, latest,
                 earlyCancel, updates, cfg0, tracing, lateTimers, firedLate,
                 seen, outerVars>>

\* the timer of an attempt whose race is over fires and rejects
\* timeoutPromise: cur says it is the timer of the attempt reading its body
LateTimer(c) ==
  /\ lateTimers[c] > 0
  /\ ~MicrotaskPending
  /\ \E cur \in BOOLEAN :
       /\ cur => TimerOfBodyPending(c)
       /\ ~cur => lateTimers[c] > (IF TimerOfBodyPending(c) THEN 1 ELSE 0)
       /\ firedLate' = [firedLate EXCEPT ![c] = @ \/ cur]
  /\ lateTimers' = [lateTimers EXCEPT ![c] = @ - 1]
  /\ UNCHANGED <<clientVars, started, callVars, stable, sleepCancel, latest,
                 earlyCancel, updates, cfg0, tracing, orphans, seen, outerVars>>

StartCall == Request(MaxCalls) /\ UNCHANGED outerVars

StartSolo == Request(SoloCalls) /\ UNCHANGED outerVars

\* generateSummary(request) called on the client, up to the await inside
\* this.request
GenerateSummary ==
  \E request \in SummaryRequests :
    /\ Request(SoloCalls)
    /\ asked' = [asked EXCEPT ![started + 1] = request]
    /\ sent' = [sent EXCEPT ![started + 1] = cleanRequest(request)]
    /\ UNCHANGED <<uiVars, singletonVars, messageVars>>

Next ==
  \/ CancelRequests
  \/ StartCall
  \/ \E c \in Calls : Respond(c)
  \/ \E c \in Calls : TransportFail(c)
  \/ \E c \in Calls : TimerFires(c)
  \/ \E c \in Calls : BodyDone(c)
  \/ \E c \in Calls : AbortObserved(c)
  \/ \E c \in Calls : SleepDone(c)

\* Overlapping top-level calls on a client whose configuration stays as
\* constructed.
Spec == Init /\ [][Next]_vars

\* The race of an attempt of call c is decided: its fetch yields a response
\* or fails, or its timer fires first.
RaceDecided(c) == Respond(c) \/ TransportFail(c) \/ TimerFires(c)

NextConfig ==
  \/ UpdateConfig
  \/ CancelRequests
  \/ StartSolo
  \/ \E c \in Calls : Respond(c)
  \/ \E c \in Calls : TransportFail(c)
  \/ \E c \in Calls : TimerFires(c)
  \/ \E c \in Calls : BodyDone(c)
  \/ \E c \in Calls : AbortObserved(c)
  \/ \E c \in Calls : SleepDone(c)

\* Calls made one at a time on a client with any configuration, which
\* updateConfig may change while a call is running.
SpecConfig == InitConfig /\ [][NextConfig]_vars

\* SpecConfig where every race is decided, every abort is delivered and every
\* backoff timer fires.  Nothing bounds the read of a response body: the
\* timer of request stops counting once fetch has resolved.
SpecLive ==
  SpecConfig /\ \A c \in Calls : /\ WF_vars(RaceDecided(c))
                                 /\ WF_vars(AbortObserved(c))
                                 /\ WF_vars(SleepDone(c))

NextTrace ==
  \/ CancelRequests
  \/ StartSolo
  \/ \E c \in Calls : Respond(c)
  \/ \E c \in Calls : TransportFail(c)
  \/ \E c \in Calls : TimerFires(c)
  \/ \E c \in Calls : BodyDone(c)
  \/ \E c \in Calls : AbortObserved(c)
  \/ \E c \in Calls : SleepDone(c)
  \/ \E c \in Calls : OrphanSettles(c)
  \/ \E c \in Calls : LateTimer(c)

NextFacade ==
  \/ CancelRequests
  \/ GenerateSummary
  \/ \E c \in Calls : Respond(c)
  \/ \E c \in Calls : TransportFail(c)
  \/ \E c \in Calls : TimerFires(c)
  \/ \E c \in Calls : BodyDone(c)
  \/ \E c \in Calls : AbortObserved(c)
  \/ \E c \in Calls : SleepDone(c)

\* generateSummary called directly on the client with any request.
SpecFacade == Init /\ [][NextFacade]_vars

\* Calls made one at a time on a client with any configuration, together with
\* what each attempt leaves behind: the fetch a timeout did not abort and the
\* timer a response did not clear.
SpecTrace == InitTrace /\ [][NextTrace]_vars

\* ----- the App: handlers -----
MaxProbes == 2

\* What a call of generateSummary can settle with when nobody cancels it:
\* every result the attempts of request can surface.
SettledResults ==
  {Success, TimeoutError, NetworkError, OtherTypeError, SyntaxError}
    \cup {createAPIError(st, parseErrorResponse(body, body = "dropped")) :
            st \in {x \in Statuses : ~ResponseOk(x)}, body \in Bodies}

\* getErrorMessage(error): <<message>>, or <<>> when it throws because
\* error.validationErrors has no map method.
getErrorMessage(e) ==
  IF e.name = "ValidationAPIError"
  THEN IF e.validationErrors = "notalist" THEN <<>>
       ELSE <<"Validation Error: " \o e.validationErrors>>
  ELSE IF e.name = "NetworkError"
  THEN <<"Unable to connect to the server. Please check your internet connection and try again.">>
  ELSE IF e.name = "TimeoutError"
  THEN <<"The request timed out. The server may be busy. Please try again.">>
  ELSE IF e.name = "APIClientError"
  THEN CASE e.statusCode = 400 -> <<"Invalid request: " \o e.message>>
         [] e.statusCode = 401 ->
              <<"Authentication required. Please refresh the page and try again.">>
         [] e.statusCode = 403 ->
              <<"Access denied. You may not have permission to perform this action.">>
         [] e.statusCode = 404 ->
              <<"Service not found. The API may be temporarily unavailable.">>
         [] e.statusCode = 429 ->
              <<"Too many requests. Please wait a moment before trying again.">>
         [] e.statusCode = 500 ->
              <<"Internal server error. Please try again later.">>
         [] e.statusCode \in {502, 503, 504} ->
              <<"Service temporarily unavailable. Please try again in a few moments.">>
         [] OTHER ->
              <<"Server error (" \o ToString(e.statusCode) \o "): " \o e.message>>
  ELSE IF e.message # "" THEN <<e.message>>
  ELSE <<"An unexpected error occurred. Please try again.">>

\* The errors getErrorMessage is probed with: every class of the client, the
\* statuses of the switch and some outside it, three message texts.
MessageStatuses ==
  {0, 400, 401, 402, 403, 404, 409, 418, 422, 429, 500, 501, 502, 503, 504, 599}
MessageTexts == {"", "Not Found", "boom"}
ErrorSamples ==
  {[e EXCEPT !.message = m] :
     e \in {HttpError(st) : st \in MessageStatuses}
            \cup {ValidationAPIError(v) : v \in {"nonempty", "empty", "notalist"}}
            \cup {NetworkError, TimeoutError, CancelledError, OtherTypeError,
                   SyntaxError},
     m \in MessageTexts}

\* getErrorMessage(thrown) called once
GetErrorMessage ==
  /\ event # "getErrorMessage"
  /\ message' = getErrorMessage(thrown)
  /\ event' = "getErrorMessage"
  /\ UNCHANGED <<config, abortController, aborted, started, callVars, stable,
                 sleepCancel, latest, earlyCancel, updates, cfg0, traceVars,
                 facadeVars, singletonVars, thrown, appState, loadingState,
                 healthStatus, formVars, gens, probeVars, lastResult,
                 loadingLog>>

\* Any error of ErrorSamples thrown to the App
InitMessages ==
  \E partial \in Partials :
    /\ \A f \in DOMAIN partial : partial[f] = <<>>
    /\ Constructed(partial)
    /\ tracing = FALSE
    /\ Rendered(<<>>)
    /\ ModuleLoaded
    /\ thrown \in ErrorSamples
    /\ message = <<>>

NextMessages == GetErrorMessage

\* getErrorMessage applied to every sample error.
SpecMessages == InitMessages /\ [][NextMessages]_vars

\* The PRSummary the backend returns for a request body.
PRSummaryOf(body) == body

\* FormData as validateForm reads it, and the cleanData of handleSubmit
FormRequest(data) ==
  [githubPrUrl |-> data.githubPrUrl, jiraTicketId |-> <<data.jiraTicketId>>]
CleanData(data) ==
  [githubPrUrl |-> Trim(data.githubPrUrl),
   jiraTicketId |-> TrimOrUndefined(<<data.jiraTicketId>>)]

FieldValue(data, name) ==
  IF name = "githubPrUrl" THEN data.githubPrUrl ELSE data.jiraTicketId

\* Inputs are rendered with disabled={loading || disabled}
InputsEnabled == ~appState.loading /\ healthStatus # "unhealthy"

\* handleInputChange
Change(name, value) ==
  /\ InputsEnabled
  /\ formData' = IF name = "githubPrUrl"
                 THEN [formData EXCEPT !.githubPrUrl = value]
                 ELSE [formData EXCEPT !.jiraTicketId = value]
  /\ errors' = (errors \ {name})
                 \cup (IF name \in touched /\ validateField(name, value)
                       THEN {name} ELSE {})
  /\ event' = "change"
  /\ UNCHANGED <<touched, isSubmitting, appState, loadingState, healthStatus,
                 gens, probeVars, lastResult, loadingLog>>

\* handleInputBlur
Blur(name) ==
  /\ InputsEnabled
  /\ touched' = touched \cup {name}
  /\ errors' = errors \cup (IF validateField(name, FieldValue(formData, name))
                            THEN {name} ELSE {})
  /\ event' = "blur"
  /\ UNCHANGED <<formData, isSubmitting, appState, loadingState, healthStatus,
                 gens, probeVars, lastResult, loadingLog>>

\* handleSummaryRequest(data) up to the await of apiClient.generateSummary;
\* via tells which handler awaits it
HandleSummaryRequest(data, via) ==
  /\ appState' = [appState EXCEPT !.loading = TRUE, !.error = NoError,
                                  !.lastRequest = data]
  /\ loadingState' = "generating"
  /\ loadingLog' = <<"validating", "generating">>
  /\ gens' = Append(gens, [req |-> data, via |-> via, body |-> cleanRequest(data)])

\* The double-submission guard of handleSubmit.
SubmitSuppressed(submitting, loading, disabled) ==
  submitting \/ loading \/ disabled

\* handleSubmit up to the await of onSubmit
Submit ==
  /\ event' = "submit"
  /\ UNCHANGED <<formData, healthStatus, probeVars, lastResult>>
  /\ IF SubmitSuppressed(isSubmitting, appState.loading, healthStatus = "unhealthy")
     THEN UNCHANGED <<errors, touched, isSubmitting, appState, loadingState,
                      gens, loadingLog>>
     ELSE /\ touched' = Fields
          /\ IF validateForm(FormRequest(formData)) # {}
             THEN /\ errors' = validateForm(FormRequest(formData))
                  /\ UNCHANGED <<isSubmitting, appState, loadingState, gens,
                                 loadingLog>>
             ELSE /\ errors' = {}
                  /\ isSubmitting' = TRUE
                  /\ HandleSummaryRequest(CleanData(formData), "form")

\* SummaryDisplay renders 'Try Again' in its error state only
RetryOffered == ~appState.loading /\ appState.error # NoError

\* handleRetry up to the await of handleSummaryRequest
Retry ==
  /\ RetryOffered
  /\ event' = "retry"
  /\ IF appState.lastRequest # NoRequest
     THEN HandleSummaryRequest(appState.lastRequest, "retry")
     ELSE UNCHANGED <<appState, loadingState, loadingLog, gens>>
  /\ UNCHANGED <<formVars, healthStatus, probeVars, lastResult>>

\* handleNewSummary leaving the last request in place
AfterNewSummary_KeepRequest(state) ==
  [InitialAppState EXCEPT !.lastRequest = state.lastRequest]

\* The appState handleNewSummary sets.
AfterNewSummary(state) == InitialAppState

\* SummaryDisplay renders 'New Summary' in its error state and with a summary
NewSummaryOffered ==
  /\ ~appState.loading
  /\ appState.error # NoError \/ appState.summary # NoSummary

\* handleNewSummary
NewSummary ==
  /\ NewSummaryOffered
  /\ appState' = AfterNewSummary(appState)
  /\ loadingState' = "idle"
  /\ loadingLog' = Append(loadingLog, "idle")
  /\ event' = "newSummary"
  /\ UNCHANGED <<formVars, healthStatus, gens, probeVars, lastResult>>

Without(seq, i) == SubSeq(seq, 1, i - 1) \o SubSeq(seq, i + 1, Len(seq))

\* The rest of handleSubmit once onSubmit has settled.
SubmitSettled(via, ok) ==
  IF via # "form" THEN UNCHANGED formVars
  ELSE /\ isSubmitting' = FALSE
       /\ IF ok
          THEN formData' = InitialFormData /\ touched' = {} /\ errors' = {}
          ELSE errors' = {"general"} /\ UNCHANGED <<formData, touched>>

\* the catch block of handleSummaryRequest leaving the summary in place
AppStateAfterFailure_KeepSummary(state, msg) ==
  [state EXCEPT !.loading = FALSE, !.error = msg]

\* setAppState of the catch block of handleSummaryRequest
AppStateAfterFailure(state, msg) ==
  [state EXCEPT !.summary = NoSummary, !.loading = FALSE, !.error = msg]

\* handleSummaryRequest without its last setLoadingState on success
SettledLoadingState_Completing(ok) == IF ok THEN "completing" ELSE "idle"

\* The last setLoadingState of handleSummaryRequest, on success and in the
\* catch block.
SettledLoadingState(ok) == "idle"

\* apiClient.generateSummary settles: the rest of handleSummaryRequest and of
\* the handler that awaited it
GenSettles(i) ==
  /\ i \in 1..Len(gens)
  /\ \E r \in SettledResults :
       /\ lastResult' = r
       /\ IF r = Success
          THEN /\ appState' = [appState EXCEPT
                                 !.summary = PRSummaryOf(gens[i].body),
                                 !.loading = FALSE, !.error = NoError]
               /\ loadingState' = SettledLoadingState(TRUE)
               /\ loadingLog' = loadingLog \o <<"completing", "idle">>
          ELSE IF getErrorMessage(r) = <<>>
          THEN UNCHANGED <<appState, loadingState, loadingLog>>
          ELSE /\ appState' = AppStateAfterFailure(appState, getErrorMessage(r)[1])
               /\ loadingState' = SettledLoadingState(FALSE)
               /\ loadingLog' = Append(loadingLog, "idle")
       /\ SubmitSettled(gens[i].via, r = Success)
  /\ gens' = Without(gens, i)
  /\ event' = "genDone"
  /\ UNCHANGED <<healthStatus, probeVars>>

\* checkAPIHealth up to the await of apiClient.ping (mount, interval, buttons)
ProbeStart ==
  /\ Len(probes) < MaxProbes
  /\ probes' = Append(probes, FALSE)
  /\ event' = "probe"
  /\ UNCHANGED <<appState, loadingState, healthStatus, formVars, gens,
                 lastProbe, lastResult, loadingLog>>

\* checkAPIHealth resetting the App's state when the probe fails
AppStateAfterProbe_Reset(state, ok) == IF ok THEN state ELSE InitialAppState

\* The appState after a probe: checkAPIHealth calls setHealthStatus only.
AppStateAfterProbe(state, ok) == state

\* checkAPIHealth leaving the indicator alone when the probe fails
HealthAfterProbe_UnknownOnFailure(ok) == IF ok THEN "healthy" ELSE "unknown"

\* setHealthStatus('healthy') after the await, setHealthStatus('unhealthy')
\* in the catch
HealthAfterProbe(ok) == IF ok THEN "healthy" ELSE "unhealthy"

\* checkAPIHealth ignoring the result of a probe that a later one overtook
HealthWritten_FreshOnly(overtaken, current, new) ==
  IF overtaken THEN current ELSE new

\* The indicator after a probe has settled: every probe writes it.
HealthWritten(overtaken, current, new) == new

\* The i-th pending apiClient.ping settles: the rest of checkAPIHealth
ProbeSettles(i) ==
  /\ i \in 1..Len(probes)
  /\ probes' = Without([j \in 1..Len(probes) |-> j < i \/ probes[j]], i)
  /\ \E ok \in BOOLEAN :
       /\ healthStatus' =
            HealthWritten(probes[i], healthStatus, HealthAfterProbe(ok))
       /\ lastProbe' = [ok |-> ok, overtaken |-> probes[i]]
       /\ appState' = AppStateAfterProbe(appState, ok)
  /\ event' = "probeDone"
  /\ UNCHANGED <<loadingState, formVars, gens, lastResult, loadingLog>>

\* The client as the App leaves it: it never calls cancelRequests or
\* updateConfig, and follows its calls to their settlement only.
ClientAside ==
  UNCHANGED <<config, abortController, aborted, started, callVars, stable,
              sleepCancel, latest, earlyCancel, updates, cfg0, traceVars,
              facadeVars, singletonVars, messageVars>>

\* App mounted on a client built by getAPIClient(): the mount effect has
\* started the first health probe
InitUI ==
  \E partial \in Partials :
    /\ \A f \in DOMAIN partial : partial[f] = <<>>
    /\ Constructed(partial)
    /\ tracing = FALSE
    /\ Rendered(<<FALSE>>)
    /\ ModuleLoaded
    /\ Unasked

NextUI ==
  \/ \E name \in Fields :
       \E value \in (IF name = "githubPrUrl" THEN UrlSamples ELSE TicketSamples) :
         Change(name, value) /\ ClientAside
  \/ \E name \in Fields : Blur(name) /\ ClientAside
  \/ Submit /\ ClientAside
  \/ Retry /\ ClientAside
  \/ NewSummary /\ ClientAside
  \/ \E i \in 1..Len(gens) : GenSettles(i) /\ ClientAside
  \/ ProbeStart /\ ClientAside
  \/ \E i \in 1..Len(probes) : ProbeSettles(i) /\ ClientAside

\* The App with its InputForm and SummaryDisplay, driven by the user, the
\* health interval and the settling of the client's calls.
SpecUI == InitUI /\ [][NextUI]_vars

\* SpecUI where every generateSummary call the App awaits settles.
SpecUILive ==
  SpecUI /\ WF_vars(\E i \in 1..Len(gens) : GenSettles(i) /\ ClientAside)

\* ----- the singleton -----
MaxInstances == 2

\* getAPIClient constructing an instance on every access
NeedsInstance_Always(slot) == TRUE

\* if (!apiClientInstance)
NeedsInstance(slot) == slot = 0

EmptyPartial ==
  [baseURL |-> <<>>, timeout |-> <<>>, retries |-> <<>>, retryDelay |-> <<>>,
   retryBackoff |-> <<>>]

\* getAPIClient ignoring its argument once the instance exists
Applies_Never(arg) == FALSE

\* else if (config)
Applies(arg) == arg # <<>>

\* getAPIClient(config), config given (<<partial>>) or not (<<>>)
GetAPIClient(arg) ==
  /\ IF NeedsInstance(apiClientInstance)
     THEN /\ Len(instanceConfigs) < MaxInstances
          /\ instanceConfigs' =
               Append(instanceConfigs,
                      Merge(DEFAULT_CONFIG,
                            IF arg = <<>> THEN EmptyPartial ELSE arg[1]))
          /\ apiClientInstance' = Len(instanceConfigs) + 1
     ELSE /\ instanceConfigs' =
               IF Applies(arg)
               THEN [instanceConfigs EXCEPT ![apiClientInstance] = Merge(@, arg[1])]
               ELSE instanceConfigs
          /\ UNCHANGED apiClientInstance
  /\ returned' = apiClientInstance'
  /\ lastArg' = arg
  /\ event' = "getAPIClient"

\* resetAPIClient(); inUse tells whether the client the call variables
\* follow is the instance in the slot
ResetAPIClient(inUse) ==
  /\ IF inUse /\ apiClientInstance # 0
     THEN Cancelled
     ELSE UNCHANGED <<abortController, aborted, sleepCancel, earlyCancel>>
  /\ apiClientInstance' = 0
  /\ event' = "resetAPIClient"
  /\ UNCHANGED <<instanceConfigs, lastArg, returned>>

\* Everything but the module's singleton.
SingletonAside ==
  UNCHANGED <<config, abortController, aborted, started, callVars, stable,
              sleepCancel, latest, earlyCancel, updates, cfg0, traceVars,
              facadeVars, appState, loadingState, healthStatus, formVars,
              gens, probeVars, lastResult, loadingLog, messageVars>>

NextSingleton ==
  \/ \E arg \in Opt(Partials) : GetAPIClient(arg) /\ SingletonAside
  \/ ResetAPIClient(FALSE) /\ SingletonAside

\* getAPIClient and resetAPIClient called in any order with any argument.
SpecSingleton == Init /\ [][NextSingleton]_vars

\* The client of the call variables is the instance getAPIClient(partial)
\* has constructed and returned to its callers.
InitReset ==
  \E partial \in Partials :
    /\ \A f \in DOMAIN partial \ {"retries"} : partial[f] = <<>>
    /\ Constructed(partial)
    /\ tracing = FALSE
    /\ Rendered(<<>>)
    /\ Unasked
    /\ apiClientInstance = 1
    /\ instanceConfigs = <<Merge(DEFAULT_CONFIG, partial)>>
    /\ lastArg = <<partial>>
    /\ returned = 1

NextReset ==
  \/ ResetAPIClient(TRUE)
       /\ UNCHANGED <<config, started, callVars, stable, latest, updates, cfg0,
                      traceVars, facadeVars, appState, loadingState,
                      healthStatus, formVars, gens, probeVars, lastResult,
                      loadingLog, messageVars>>
  \/ StartCall
  \/ \E c \in Calls : Respond(c)
  \/ \E c \in Calls : TransportFail(c)
  \/ \E c \in Calls : TimerFires(c)
  \/ \E c \in Calls : BodyDone(c)
  \/ \E c \in Calls : AbortObserved(c)
  \/ \E c \in Calls : SleepDone(c)

\* Calls made by the holders of the singleton, before and after
\* resetAPIClient drops it.
SpecReset == InitReset /\ [][NextReset]_vars

\* ----- retry policy -----

\* C1: a logical call whose configuration was not changed while it ran makes
\* at most retries + 1 network attempts, whatever its attempts' outcomes.
C1_AttemptsBounded ==
  \A c \in Calls : stable[c] => Attempts(c) <= config.retries + 1

C1_Witness ==
  \E c \in Calls :
    /\ pc[c] = "done" /\ stable[c] /\ outcomes[c] = "mixed"
    /\ config.retries >= 2 /\ Attempts(c) = config.retries + 1

\* C2 (as claimed): a call whose every attempt ended in a transport failure
\* has made exactly retries + 1 attempts when its NetworkError is surfaced.
C2_NetworkRetried ==
  \A c \in Calls :
    (pc[c] = "done" /\ stable[c] /\ outcomes[c] = "Network" /\ result[c] = NetworkError)
      => Attempts(c) = config.retries + 1

\* C3: a call whose every attempt was ended by the timeout timer ends after
\* exactly retries + 1 attempts, has slept one backoff delay between each
\* consecutive pair of attempts, and surfaces a TimeoutError.
C3_TimeoutRetried ==
  \A c \in Calls :
    (pc[c] = "done" /\ stable[c] /\ outcomes[c] = "Timeout")
      => /\ Attempts(c) = config.retries + 1
         /\ Len(delays[c]) = Attempts(c) - 1
         /\ result[c] = TimeoutError

C3_Witness ==
  \E c \in Calls :
    /\ pc[c] = "done" /\ stable[c] /\ outcomes[c] = "Timeout"
    /\ config.retries >= 2 /\ Len(delays[c]) = config.retries

\* The attempt of call c that received a non-2xx response ends in this step
\* with a classified error (one that carries the response's status).
HttpFailure(c) ==
  /\ pc[c] = "body" /\ ~ResponseOk(status[c]) /\ pc'[c] # "body"
  /\ ~(pc'[c] = "done" /\ result'[c].name = "TypeError")

C5_CancelledNeverRetried ==
  [][\A c \in Calls :
       (Signalled(c) /\ pc'[c] # pc[c])
         => (pc'[c] = "done" /\ result'[c] = CancelledError)]_vars

\* C6 (as claimed): a call during whose backoff delay cancelRequests was
\* invoked starts no further attempt and ends with the cancellation error.
C6_CancelDuringBackoff ==
  \A c \in Calls :
    sleepCancel[c] => (pc[c] = "sleep" \/ (pc[c] = "done" /\ result[c] = CancelledError))

\* C7 (as claimed): a call started after another top-level call is never
\* ended by cancelRequests.
C7_LaterCallUnaffected ==
  \A b \in Calls : b > 1 => result[b] # CancelledError

\* An effective cancelRequests: the slot goes from a controller to null.
CancelStep == abortController # NoCtrl /\ abortController' = NoCtrl

\* C7 (amended): a cancelRequests invoked while a later-started call B is in
\* flight aborts B's attempt exactly when that attempt holds the slot, and
\* leaves B as it is otherwise; a B attempt aborted while it awaits the
\* response or a 2xx body ends B with the cancellation error.
C7_LaterCallAbortedIfTracked ==
  [][\A b \in Calls :
       /\ (b > 1 /\ InFlight(b) /\ ~Signalled(b) /\ CancelStep)
            => /\ (CurCtrl(b) \in aborted') <=> (abortController = CurCtrl(b))
               /\ pc'[b] = pc[b] /\ result'[b] = result[b]
               /\ retryCount'[b] = retryCount[b]
       /\ (b > 1 /\ Signalled(b) /\ pc'[b] # pc[b]
             /\ (pc[b] = "fetch" \/ ResponseOk(status[b])))
            => (pc'[b] = "done" /\ result'[b] = CancelledError)]_vars

C7_Witness ==
  \E b \in Calls : b > 1 /\ pc[1] \in {"fetch", "body"} /\ result[b] = CancelledError

\* C8 (as claimed): cancelRequests never aborts an attempt of a call that is
\* not the most recently started top-level call.
C8_EarlierCallNeverAborted ==
  [][\A a \in Calls :
       (a < started /\ InFlight(a) /\ ~Signalled(a)) => CurCtrl(a) \notin aborted']_vars

\* C8 (amended): the slot holds nothing or the controller of the most recently
\* started attempt, top-level or retry, and only that attempt is ever aborted.
C8_OnlyLatestAttemptAborted ==
  /\ [](abortController \in {NoCtrl, latest})
  /\ [][\A a \in Calls :
          (InFlight(a) /\ ~Signalled(a) /\ CurCtrl(a) \in aborted')
            => CurCtrl(a) = latest]_vars

C8_Witness ==
  \E a \in Calls :
    /\ a < started /\ Signalled(a) /\ retryCount[a] > 0 /\ latest = CurCtrl(a)
    /\ \E b \in Calls : b > a /\ InFlight(b) /\ ~Signalled(b)

\* C9: starting a top-level call aborts nothing and leaves the earlier calls
\* where they are; an in-flight attempt that no longer holds the slot is never
\* aborted afterwards and does not end with the cancellation error.
C9_ReplacedTokenNotAborted ==
  [][/\ (started' = started + 1)
          => /\ aborted' = aborted
             /\ \A a \in Calls :
                  a <= started => /\ pc'[a] = pc[a] /\ result'[a] = result[a]
                                  /\ retryCount'[a] = retryCount[a]
     /\ \A a \in Calls :
          (InFlight(a) /\ ~Signalled(a) /\ abortController # CurCtrl(a))
            => /\ CurCtrl(a) \notin aborted'
               /\ abortController' # CurCtrl(a)
               /\ result'[a] # CancelledError]_vars

C9_Witness ==
  /\ started = 2 /\ InFlight(1) /\ ~Signalled(1) /\ retryCount[1] = 0
  /\ abortController = NoCtrl /\ result[2] = CancelledError

\* C10: a cancelRequests invoked before any call has started changes neither
\* the slot, nor the configuration, nor anything a later call depends on.
C10_EarlyCancelNoOp ==
  /\ [](earlyCancel => (started = 0 /\ abortController = NoCtrl /\ aborted = {}))
  /\ [][(started = 0 /\ started' = 0 /\ earlyCancel' /\ updates' = updates)
          => UNCHANGED <<config, abortController, aborted, callVars, stable,
                         sleepCancel, latest>>]_vars

C10_Witness == earlyCancel /\ started = 0

\* ----- configuration updates -----

\* C11 (as claimed): a call in flight keeps the configuration it started with:
\* whenever one of its attempts fails and the call goes on to a backoff
\* delay, the retry budget and the delay are those of the configuration in
\* force when the call was made, whatever updateConfig did since.
C11_InFlightKeepsConfig ==
  [][\A c \in Calls :
       (InFlight(c) /\ pc'[c] = "sleep")
         => /\ retryCount[c] < cfg0[c].retries
            /\ delays'[c] = Append(delays[c], BackoffDelay(cfg0[c], retryCount[c]))]_vars

\* ----- attempts, the timeout race -----

\* The transport operations of call c that have not settled.
Outstanding(c) == orphans[c] + (IF InFlight(c) THEN 1 ELSE 0)

\* C12 (as claimed): a call never has two network operations outstanding at
\* once, not even after an attempt ended by timeout.
C12_OneTransportAtATime == \A c \in Calls : Outstanding(c) <= 1

\* C12 (amended): attempt N+1 of a call starts only out of the backoff delay
\* that followed the failure of attempt N, so the call awaits one attempt at a
\* time; the only other transport operations it has outstanding are fetches
\* of its attempts that ended by timeout.
C12_SequentialButForOrphans ==
  /\ [](\A c \in Calls :
          orphans[c] > 0
            => /\ outcomes[c] \in {"Timeout", "mixed"}
               /\ orphans[c] <= Attempts(c) - (IF InFlight(c) THEN 1 ELSE 0))
  /\ [][\A c \in Calls :
          retryCount'[c] # retryCount[c]
            => /\ retryCount'[c] = retryCount[c] + 1
               /\ pc[c] = "sleep" /\ pc'[c] = "fetch"
               /\ Len(delays[c]) = retryCount[c] + 1]_vars

C12_Witness ==
  \E c \in Calls : retryCount[c] >= 1 /\ InFlight(c) /\ orphans[c] = retryCount[c]

\* C13: the first of response and timer to settle decides the attempt.  A
\* timer that fires while the response is awaited ends the attempt as a
\* timeout (retried, or surfaced as TimeoutError) and leaves its fetch
\* behind; the later settling of such a fetch, and the firing of a timer
\* whose attempt already has its response, change nothing of the client or
\* of the call; and an attempt that has its response never ends as a timeout.
C13_RaceLoserDiscarded ==
  [][\A c \in Calls :
       /\ orphans'[c] > orphans[c]
            => /\ pc[c] = "fetch"
               /\ outcomes'[c] = Tally(outcomes[c], "Timeout")
               /\ \/ pc'[c] = "sleep"
                  \/ pc'[c] = "done" /\ result'[c] = TimeoutError
       /\ (orphans'[c] < orphans[c] \/ lateTimers'[c] < lateTimers[c])
            => UNCHANGED <<clientVars, callVars, started>>
       /\ (pc[c] = "body" /\ pc'[c] # "body")
            => /\ orphans'[c] = orphans[c]
               /\ result'[c] # TimeoutError]_vars

C13_Witness ==
  \E c \in Calls :
    /\ retryCount[c] >= 1 /\ outcomes[c] = "Timeout" /\ orphans[c] = 0
    /\ pc[c] = "body" /\ firedLate[c]

\* C14 (as claimed): an attempt whose timer has fired cannot end in success,
\* even when the timer fires while the response body is being read.
C14_NoSuccessAfterTimer ==
  \A c \in Calls : ~(pc[c] = "done" /\ result[c] = Success /\ firedLate[c])

\* ----- backoff -----

ScenarioConfig ==
  [DEFAULT_CONFIG EXCEPT !.retries = 3, !.retryDelay = 100, !.retryBackoff = TRUE]

ScenarioAnswers == <<500, 500, 200>>

\* Call c runs under the scenario's configuration and each of its attempts so
\* far was answered as the scenario prescribes.
InScenario(c) ==
  /\ config = ScenarioConfig
  /\ Attempts(c) = Len(seen[c])
  /\ Len(seen[c]) <= Len(ScenarioAnswers)
  /\ seen[c] = SubSeq(ScenarioAnswers, 1, Len(seen[c]))

\* C15: with retries = 3, retryDelay = 100 and backoff on, a call answered
\* 500, 500, 200 does not give up on a 500, sleeps 100 after the first and 200
\* after the second, and once it succeeds it has made exactly 3 attempts with
\* delays 100 then 200 and none after the success.
C15_BackoffScenario ==
  \A c \in Calls :
    InScenario(c)
      => /\ pc[c] = "sleep" => delays[c] = SubSeq(<<100, 200>>, 1, Len(seen[c]))
         /\ pc[c] = "done" => result[c] # HttpError(500)
         /\ result[c] = Success
              => Attempts(c) = 3 /\ delays[c] = <<100, 200>> /\ pc[c] = "done"

C15_Witness ==
  \E c \in Calls :
    InScenario(c) /\ seen[c] = ScenarioAnswers /\ result[c] = Success

StrictlyIncreasing(seq) ==
  \A i \in 1..Len(seq) : \A j \in 1..Len(seq) : i < j => seq[i] < seq[j]

\* C16 (as claimed): the delay slept after failed attempt k is
\* retryDelay * 2^k with backoff on and retryDelay otherwise, and the delays
\* of a call made and run with backoff on are strictly increasing.
C16_DelaysGrow ==
  /\ [](\A c \in Calls :
          (cfg0[c].retryBackoff /\ config.retryBackoff)
            => StrictlyIncreasing(delays[c]))
  /\ [][\A c \in Calls :
          Len(delays'[c]) > Len(delays[c])
            => delays'[c] =
                 Append(delays[c],
                        IF config.retryBackoff
                        THEN config.retryDelay * 2^(retryCount[c])
                        ELSE config.retryDelay)]_vars

\* ----- the error the caller receives -----

\* The errors the attempt call c is awaiting can end with.
ErrorsOfAttempt(c) ==
  IF pc[c] = "body" /\ ~ResponseOk(status[c])
  THEN {HttpError(status[c]), OtherTypeError}
       \cup (IF status[c] = 400
             THEN {ValidationAPIError(v) : v \in {"nonempty", "empty", "notalist"}}
             ELSE {})
  ELSE IF Signalled(c) THEN {CancelledError}
  ELSE IF pc[c] = "body" THEN {SyntaxError, NetworkError, OtherTypeError}
  ELSE {TimeoutError, NetworkError, OtherTypeError}

\* C17: when a call ends in failure, the error its caller receives is the
\* error of the attempt that just ended (for an HTTP failure, the error with
\* the status of that attempt's response), never one kept from an earlier,
\* retried attempt.
C17_LastAttemptErrorSurfaced ==
  [][\A c \in Calls :
       (InFlight(c) /\ pc'[c] = "done" /\ result'[c] # Success)
         => result'[c] \in ErrorsOfAttempt(c)]_vars

C17_Witness ==
  \E c \in Calls :
    /\ pc[c] = "done" /\ retryCount[c] >= 1
    /\ outcomes[c] = "mixed" /\ result[c] = HttpError(404)

\* ----- error classification -----

\* The four kinds of classified error, and the cancellation error.
Classified(e) ==
  \/ e.name \in {"ValidationAPIError", "NetworkError", "TimeoutError"}
  \/ e.name = "APIClientError" /\ ~ResponseOk(e.statusCode)

\* C18 (as claimed): every call that fails hands its caller a classified
\* error: Validation, Network, Timeout or Http(status) (the cancellation
\* error, an APIClientError of status 0, is let through here).
C18_EveryFailureClassified ==
  \A c \in Calls :
    (pc[c] = "done" /\ result[c] # Success) => Classified(result[c])

\* C19 (as claimed): a call ended by a response whose status is outside
\* [200,299] fails with a ValidationError, and then the status is 400, or with
\* the HttpError carrying the status of that response.
C19_NonOkClassification ==
  [][\A c \in Calls :
       (pc[c] = "body" /\ ~ResponseOk(status[c]) /\ pc'[c] = "done")
         => \/ result'[c] = HttpError(status[c])
            \/ result'[c].name = "ValidationAPIError" /\ status[c] = 400]_vars

\* C20 (as claimed): every ValidationError a caller receives carries a
\* non-empty list of field errors, and a response of status 400 is never
\* followed by a retry.
C20_ValidationNonEmptyTerminal ==
  /\ [](\A c \in Calls :
          result[c].name = "ValidationAPIError"
            => result[c].validationErrors = "nonempty")
  /\ [][\A c \in Calls :
          (pc[c] = "body" /\ status[c] = 400) => pc'[c] # "sleep"]_vars

\* ----- the summary request -----

\* C21 (as claimed): generateSummary makes no network attempt for a request
\* whose references are invalid.
C21_InvalidRequestNotSent ==
  \A c \in Calls :
    (asked[c] # NoRequest /\ validateForm(asked[c]) # {}) => Attempts(c) = 0

\* C23 (as claimed): the body generateSummary transmits has the trimmed,
\* non-empty URL, and a ticket that is absent or trimmed and non-empty.
C23_BodyTrimmedNonEmpty ==
  \A c \in Calls :
    sent[c] # NoBody
      => /\ sent[c].github_pr_url = Trim(asked[c].githubPrUrl)
         /\ sent[c].github_pr_url # ""
         /\ \/ sent[c].jira_ticket_id = <<>>
            \/ /\ sent[c].jira_ticket_id[1] # ""
               /\ sent[c].jira_ticket_id[1] = Trim(asked[c].jiraTicketId[1])

\* ----- the form -----

\* The fields of the form that are not acceptable: an empty or non-PR URL, a
\* ticket that is not blank and fails the ticket pattern.
BadFields(data) ==
  (IF Trim(data.githubPrUrl) = "" \/ ~GITHUB_PR_URL_PATTERN(Trim(data.githubPrUrl))
   THEN {"githubPrUrl"} ELSE {})
  \cup (IF Trim(data.jiraTicketId) # "" /\ ~JIRA_TICKET_PATTERN(Trim(data.jiraTicketId))
        THEN {"jiraTicketId"} ELSE {})

\* C22 (as claimed): submitting a form with a bad field starts no generation
\* and sets the inline errors of the bad fields.
C22_InvalidSubmitShowsErrors ==
  [][(event' = "submit" /\ BadFields(formData) # {})
       => gens' = gens /\ errors' = BadFields(formData)]_vars

\* C22 (amended): submitting a form with a bad field never calls onSubmit (no
\* generation starts, the App's state stays as it is); the inline errors of
\* the bad fields are set unless handleSubmit is suppressed because the form
\* is submitting, loading or disabled, in which case nothing changes.
C22_InvalidSubmitNeverSent ==
  [][(event' = "submit" /\ BadFields(formData) # {})
       => /\ gens' = gens /\ appState' = appState /\ isSubmitting' = isSubmitting
          /\ IF isSubmitting \/ appState.loading \/ healthStatus = "unhealthy"
             THEN errors' = errors
             ELSE errors' = BadFields(formData)]_vars

C22_Witness ==
  /\ event = "submit" /\ gens = <<>>
  /\ formData.jiraTicketId = "invalid ticket!"
  /\ formData.githubPrUrl = "https://github.com/o/r/pull/1"
  /\ errors = {"jiraTicketId"}

\* ----- the App -----

\* A step in which a summary generation is started.
GenerationStarts == Len(gens') > Len(gens)

\* C24 (as claimed): no generation starts while the form is submitting, the
\* App is loading or the health indicator is 'unhealthy', whichever handler
\* starts it.
C24_NoStartWhileBusyOrUnhealthy ==
  [][GenerationStarts
       => ~isSubmitting /\ ~appState.loading /\ healthStatus # "unhealthy"]_vars

\* C25: a step of checkAPIHealth (a probe starting or settling, well or
\* badly) leaves summary, loading, error, lastRequest and loadingState as
\* they are, and leaves the generations in progress, the form and what the
\* last generation gave untouched.
C25_ProbeChangesHealthOnly ==
  [][probes' # probes
       => UNCHANGED <<appState, loadingState, loadingLog, gens, formVars,
                      lastResult>>]_vars

C25_Witness ==
  /\ healthStatus = "unhealthy" /\ event = "genDone"
  /\ lastResult = Success /\ appState.summary # NoSummary

\* C26 (as claimed): a generation starts from idle; when it succeeds
\* loadingState has been set to validating, generating, completing, idle in
\* that order; when it fails loadingState is idle again and an error is set;
\* retry re-enters validating with the last request; 'new summary' leaves
\* idle with summary, error and lastRequest cleared.
C26_LoadingStateCycle ==
  /\ [](/\ (event = "genDone" /\ lastResult = Success)
             => /\ loadingLog = <<"validating", "generating", "completing", "idle">>
                /\ loadingState = "idle"
        /\ (event = "genDone" /\ lastResult # Success)
             => loadingState = "idle" /\ appState.error # NoError
        /\ event = "retry"
             => /\ loadingLog = <<"validating", "generating">>
                /\ gens # <<>> /\ gens[Len(gens)].req = appState.lastRequest
        /\ event = "newSummary"
             => loadingState = "idle" /\ appState = InitialAppState)
  /\ [][GenerationStarts => loadingState = "idle"]_vars

\* C27: handleRetry passes on the request held as lastRequest, unchanged, and
\* does nothing when there is none; lastRequest is the request of the latest
\* form submission, changed by nothing but a submission and 'new summary';
\* after 'new summary' it is empty and no retry is offered.
C27_RetryReplaysLastRequest ==
  [][/\ event' = "retry"
          => IF appState.lastRequest # NoRequest
             THEN /\ gens' = Append(gens, [req |-> appState.lastRequest,
                                           via |-> "retry",
                                           body |-> cleanRequest(appState.lastRequest)])
                  /\ appState'.lastRequest = appState.lastRequest
             ELSE gens' = gens /\ appState' = appState
     /\ (event' = "submit" /\ GenerationStarts)
          => /\ appState'.lastRequest = CleanData(formData)
             /\ gens'[Len(gens')].req = CleanData(formData)
     /\ appState'.lastRequest # appState.lastRequest
          => event' \in {"submit", "newSummary"}
     /\ event' = "newSummary"
          => appState'.lastRequest = NoRequest /\ ~RetryOffered']_vars

C27_Witness ==
  /\ event = "retry" /\ Len(gens) = 1 /\ gens[1].via = "retry"
  /\ gens[1].req = appState.lastRequest
  /\ appState.lastRequest.jiraTicketId = <<"proj-1">>

\* C28 (as claimed): the held summary is set only by a generation that
\* succeeded, and is null for as long as a generation is in progress.
C28_SummaryNullWhileGenerating ==
  /\ [](gens # <<>> => appState.summary = NoSummary)
  /\ [][(appState'.summary # appState.summary /\ appState'.summary # NoSummary)
          => event' = "genDone" /\ lastResult' = Success]_vars

\* ----- the singleton, updateConfig -----

ConfigFields == DOMAIN DEFAULT_CONFIG

\* C29: getAPIClient constructs an instance only when the slot is empty and
\* otherwise returns the instance in the slot, constructing none; the
\* instance constructed (the first one, or the one after resetAPIClient) has
\* the defaults overridden by the fields of the given config and by nothing
\* else; resetAPIClient empties the slot.
C29_Singleton ==
  [][/\ event' = "getAPIClient"
          => /\ returned' = apiClientInstance' /\ returned' # 0
             /\ IF apiClientInstance = 0
                THEN /\ Len(instanceConfigs') = Len(instanceConfigs) + 1
                     /\ returned' = Len(instanceConfigs')
                     /\ \A f \in ConfigFields :
                          instanceConfigs'[returned'][f] =
                            IF lastArg' = <<>> \/ lastArg'[1][f] = <<>>
                            THEN DEFAULT_CONFIG[f] ELSE lastArg'[1][f][1]
                     /\ \A i \in 1..Len(instanceConfigs) :
                          instanceConfigs'[i] = instanceConfigs[i]
                ELSE /\ returned' = apiClientInstance
                     /\ Len(instanceConfigs') = Len(instanceConfigs)
     /\ event' = "resetAPIClient"
          => apiClientInstance' = 0 /\ instanceConfigs' = instanceConfigs]_vars

C29_Witness ==
  /\ event = "getAPIClient" /\ returned = 2 /\ lastArg = <<>>
  /\ instanceConfigs[1].retries = 0 /\ instanceConfigs[1].retryDelay = 100
  /\ instanceConfigs[2] = DEFAULT_CONFIG

\* C30: updateConfig(partial) on the instance in the slot gives every field
\* the partial names the partial's value and leaves every other field, and
\* every other instance, as it was.
C30_UpdateConfigMerges ==
  [][(event' = "getAPIClient" /\ apiClientInstance # 0 /\ lastArg' # <<>>)
       => /\ \A f \in ConfigFields :
               instanceConfigs'[apiClientInstance][f] =
                 IF lastArg'[1][f] = <<>>
                 THEN instanceConfigs[apiClientInstance][f]
                 ELSE lastArg'[1][f][1]
          /\ \A i \in 1..Len(instanceConfigs) :
               i # apiClientInstance => instanceConfigs'[i] = instanceConfigs[i]]_vars

C30_Witness ==
  /\ event = "getAPIClient" /\ returned = 1 /\ Len(instanceConfigs) = 1
  /\ lastArg = <<[EmptyPartial EXCEPT !.retries = <<0>>]>>
  /\ instanceConfigs[1] =
       [DEFAULT_CONFIG EXCEPT !.retries = 0, !.retryDelay = 100,
                              !.retryBackoff = FALSE]

\* ----- error messages -----

\* The kind or status bucket of an error, as the message table names them.
Bucket(e) ==
  CASE e.name = "ValidationAPIError" -> "validation"
    [] e.name = "NetworkError" -> "network"
    [] e.name = "TimeoutError" -> "timeout"
    [] e.name = "APIClientError" ->
         IF e.statusCode \in {400, 401, 403, 404, 429, 500}
         THEN ToString(e.statusCode)
         ELSE IF e.statusCode \in {502, 503, 504} THEN "502-504" ELSE "other"
    [] OTHER -> "generic"

\* Buckets whose text does not quote the error.
FixedText == {"network", "timeout", "401", "403", "404", "429", "500", "502-504"}

\* C31 (as claimed): getErrorMessage returns a message for every error; two
\* errors of different buckets get different texts; two errors of the same
\* fixed-text bucket (502, 503 and 504 among them) get the same text; the
\* Validation, Network and Timeout texts do not depend on the status switch.
C31_MessagePerBucket ==
  event = "getErrorMessage"
    => /\ message # <<>>
       /\ \A e \in ErrorSamples :
            getErrorMessage(e) # <<>>
              => /\ Bucket(e) # Bucket(thrown) => getErrorMessage(e) # message
                 /\ (Bucket(e) = Bucket(thrown) /\ Bucket(e) \in FixedText)
                      => getErrorMessage(e) = message

\* ----- termination -----

\* C32 (as claimed): when every attempt's fetch eventually yields a response
\* or loses to its timer, each call that has started eventually returns a
\* result or throws an error, having made no more retries and slept no more
\* backoff delays than the largest retries setting allows.
C32_EveryCallTerminates ==
  /\ \A c \in Calls : (pc[c] \in {"fetch", "body", "sleep"}) ~> (pc[c] = "done")
  /\ [](\A c \in Calls : retryCount[c] <= MaxRetries /\ Len(delays[c]) <= MaxRetries)

\* ----- the App: settling -----

\* C33 (as claimed): once every generateSummary call settles, a form that is
\* submitting and an App that is loading eventually are not: loading is false,
\* loadingState is idle and isSubmitting is false.
C33_SubmissionSettles ==
  (isSubmitting \/ appState.loading)
    ~> (~appState.loading /\ loadingState = "idle" /\ ~isSubmitting)

\* C34: appState.summary and appState.error are never both set; a successful
\* generation leaves a summary and no error, a failed one that sets an error
\* leaves no summary, and 'new summary' leaves neither.
C34_SummaryXorError ==
  /\ [](appState.summary = NoSummary \/ appState.error = NoError)
  /\ [][/\ (event' = "genDone" /\ lastResult' = Success)
             => appState'.summary # NoSummary /\ appState'.error = NoError
        /\ (event' = "genDone" /\ appState'.error # appState.error)
             => appState'.summary = NoSummary
        /\ event' = "newSummary"
             => appState'.summary = NoSummary /\ appState'.error = NoError]_vars

C34_Witness ==
  /\ event = "genDone" /\ lastResult = NetworkError
  /\ appState.error = getErrorMessage(NetworkError)[1]
  /\ appState.summary = NoSummary /\ appState.lastRequest # NoRequest

\* C35: between handler turns appState.loading is true exactly when
\* loadingState is not idle.
C35_LoadingIffNotIdle == appState.loading <=> (loadingState # "idle")

C35_Witness ==
  /\ event = "submit" /\ appState.loading /\ loadingState = "generating"
  /\ isSubmitting /\ Len(gens) = 1

\* C37: healthStatus is 'unknown' until a probe has completed; every probe
\* that completes sets it to 'healthy' or 'unhealthy' and nothing sets it
\* back to 'unknown'.
C37_HealthNeverBackToUnknown ==
  /\ [](healthStatus \in {"unknown", "healthy", "unhealthy"})
  /\ [][/\ healthStatus # "unknown" => healthStatus' # "unknown"
        /\ event' = "probeDone" => healthStatus' \in {"healthy", "unhealthy"}
        /\ healthStatus' # healthStatus => event' = "probeDone"]_vars

C37_Witness ==
  /\ healthStatus = "unhealthy" /\ event = "newSummary"
  /\ lastProbe = [ok |-> FALSE, overtaken |-> FALSE]

\* C38: when a probe completes, the indicator takes that probe's outcome,
\* whether or not a probe that started later has completed before it.
C38_LastCompletedProbeWins ==
  [][event' = "probeDone"
       => /\ healthStatus' = (IF lastProbe'.ok THEN "healthy" ELSE "unhealthy")
          /\ Len(probes') = Len(probes) - 1]_vars

C38_Witness ==
  /\ event = "probeDone" /\ lastProbe = [ok |-> FALSE, overtaken |-> TRUE]
  /\ healthStatus = "unhealthy" /\ probes = <<>>

\* ----- a probe beside a generation -----

\* C36: generateSummary and ping both run request on the shared client.  A
\* call p (the probe) started while an attempt of a call g (the generation)
\* is in flight takes the slot and aborts nothing; a cancelRequests invoked
\* while p's attempt holds the slot aborts that attempt and no other, and
\* leaves g where it is; g does not end with the cancellation error as long
\* as its attempt does not hold the slot.
C36_ProbeTakesOverSlot ==
  [][\A g \in Calls : \A p \in Calls \ {g} :
       /\ (InFlight(g) /\ started' = p /\ started = p - 1)
            => /\ abortController' = Ctrl(p, 1)
               /\ aborted' = aborted
               /\ pc'[g] = pc[g] /\ result'[g] = result[g]
       /\ (InFlight(g) /\ ~Signalled(g) /\ InFlight(p)
             /\ abortController = CurCtrl(p) /\ CancelStep)
            => /\ aborted' = aborted \cup {CurCtrl(p)}
               /\ pc'[g] = pc[g] /\ result'[g] = result[g]
               /\ retryCount'[g] = retryCount[g]
       /\ (InFlight(g) /\ ~Signalled(g) /\ abortController = CurCtrl(p))
            => result'[g] # CancelledError]_vars

C36_Witness ==
  /\ started = 2 /\ Signalled(2) /\ abortController = NoCtrl
  /\ pc[1] = "body" /\ ~Signalled(1) /\ retryCount[1] = 0 /\ status[1] = 200

\* ----- resetAPIClient with calls under way -----

\* C39 (as claimed): resetAPIClient aborts the attempt whose controller is
\* in the slot of the instance it drops, and nothing else; it leaves the
\* configuration of that instance and every other call as they are; the call
\* whose attempt it aborted ends with the cancellation error.
C39_ResetCancelsTracked ==
  [][/\ (event' = "resetAPIClient" /\ apiClientInstance # 0)
          => /\ aborted' = aborted \cup ({abortController} \cap LiveCtrls)
             /\ abortController' = NoCtrl /\ apiClientInstance' = 0
             /\ config' = config
             /\ \A c \in Calls : /\ pc'[c] = pc[c] /\ result'[c] = result[c]
                                 /\ retryCount'[c] = retryCount[c]
     /\ \A c \in Calls :
          (Signalled(c) /\ pc'[c] # pc[c])
            => (pc'[c] = "done" /\ result'[c] = CancelledError)]_vars

\* C40: getAPIClient(config) called while an instance exists constructs
\* nothing, returns the instance in the slot and leaves it there, and gives
\* that instance the configuration updateConfig(config) would give it; with
\* no config it changes nothing.
C40_ExistingInstanceUpdated ==
  [][(event' = "getAPIClient" /\ apiClientInstance # 0)
       => /\ Len(instanceConfigs') = Len(instanceConfigs)
          /\ apiClientInstance' = apiClientInstance
          /\ returned' = apiClientInstance
          /\ instanceConfigs' =
               [instanceConfigs EXCEPT ![apiClientInstance] =
                  IF lastArg' = <<>> THEN @ ELSE Merge(@, lastArg'[1])]]_vars

C40_Witness ==
  /\ event = "getAPIClient" /\ returned = 1 /\ apiClientInstance = 1
  /\ Len(instanceConfigs) = 1
  /\ lastArg = <<[EmptyPartial EXCEPT !.retryDelay = <<100>>]>>
  /\ instanceConfigs[1] = [DEFAULT_CONFIG EXCEPT !.retries = 1, !.retryDelay = 100]
====
